---- MODULE Spec2Model ----
(***************************************************************************)
(* Mongoose: the knapsack projection QPnapdown (Source/Mongoose_QPNapDown   *)
(* .cpp) and the indexed heaps it drives.                                   *)
(*                                                                         *)
(* Reals are exact rationals <<num, den>> with den > 0, kept in lowest     *)
(* terms; -INFINITY is <<-1, 0>>.  Arrays are functions: x, a and breakpts *)
(* over 0..n-1, the heap buffers over 1..n (slot 0 of the C arrays is      *)
(* never used).                                                            *)
(***************************************************************************)
EXTENDS Integers, Sequences, FiniteSets, TLC

VARIABLES
    pc,          \* position in QPnapdown (or "heap" under SpecHeap)
    n, x, a, aNull, b, lambda,      \* the arguments of QPnapdown
    breakpts, bound_heap, free_heap, \* the work arrays
    i, k, maxsteps, n_bound, n_free, \* locals
    asum, a2sum, maxbound, maxfree,
    lambda0, x_in, a_in, asum_part,  \* values at the call / after the partition
    hp, hsz, hkeys, hasc, hret,      \* a heap on its own (SpecHeap)
    ops,         \* the heap calls QPnapdown has made so far, in order
    phase, trace, ref   \* two calls on the same input (SpecTwin)

qpvars == <<n, x, a, aNull, b, lambda, breakpts, bound_heap, free_heap,
            i, k, maxsteps, n_bound, n_free, asum, a2sum, maxbound, maxfree,
            lambda0, x_in, a_in, asum_part>>
hvars == <<hp, hsz, hkeys, hasc, hret>>
gvars == <<ops, phase, trace, ref>>
vars == <<pc, qpvars, hvars, gvars>>

(***************************************************************************)
(* Bounds of the model.                                                    *)
(***************************************************************************)
MaxN == 3
MaxHeap == 4

(***************************************************************************)
(* Exact rational arithmetic (the code's double, without rounding).        *)
(***************************************************************************)
Abs(m) == IF m < 0 THEN -m ELSE m

RECURSIVE Gcd(_, _)
Gcd(p, q) == IF q = 0 THEN p ELSE Gcd(q, p % q)

Norm(r) ==
    LET g == Gcd(Abs(r[1]), Abs(r[2]))
        sg == IF r[2] < 0 THEN -1 ELSE 1
    IN  IF g = 0 THEN r ELSE <<sg * (r[1] \div g), sg * (r[2] \div g)>>

R(p, q) == Norm(<<p, q>>)
Zero == <<0, 1>>
One == <<1, 1>>
NegInf == <<-1, 0>>

RAdd(u, v) == Norm(<<u[1] * v[2] + v[1] * u[2], u[2] * v[2]>>)
RSub(u, v) == Norm(<<u[1] * v[2] - v[1] * u[2], u[2] * v[2]>>)
RMul(u, v) == Norm(<<u[1] * v[1], u[2] * v[2]>>)
RDiv(u, v) == Norm(<<u[1] * v[2], u[2] * v[1]>>)
RLt(u, v) == u[1] * v[2] < v[1] * u[2]
RLe(u, v) == u[1] * v[2] <= v[1] * u[2]
RGe(u, v) == RLe(v, u)
RGt(u, v) == RLt(v, u)

\* MONGOOSE_MAX2(x, y): ((x) > (y) ? (x) : (y))
MAX2(u, v) == IF RGt(u, v) THEN u ELSE v

(***************************************************************************)
(* IndexedHeap: a binary heap of indices heap[1..size], ordered by          *)
(* keys[heap[p]].  asc = TRUE is the ascending (min) heap, asc = FALSE the  *)
(* descending (max) heap; the two differ in the comparison only.           *)
(***************************************************************************)
\* u must sit above v: u < v in the ascending heap, u > v in the descending
Above(asc, u, v) == IF asc THEN RLt(u, v) ELSE RGt(u, v)

\* siftDown: e is the element being placed, p the hole it sinks through
RECURSIVE HeapifyLoop(_, _, _, _, _, _)
HeapifyLoop(asc, p, e, heap, size, keys) ==
    LET left == 2 * p
        right == 2 * p + 1
    IN  IF right <= size
        THEN LET c == IF Above(asc, keys[heap[left]], keys[heap[right]])
                      THEN left ELSE right
             IN  IF Above(asc, keys[heap[c]], keys[e])
                 THEN HeapifyLoop(asc, c, e, [heap EXCEPT ![p] = heap[c]],
                                  size, keys)
                 ELSE [heap EXCEPT ![p] = e]
        ELSE IF left <= size /\ Above(asc, keys[heap[left]], keys[e])
             THEN [heap EXCEPT ![p] = heap[left], ![left] = e]
             ELSE [heap EXCEPT ![p] = e]

Heapify(asc, p, heap, size, keys) ==
    HeapifyLoop(asc, p, heap[p], heap, size, keys)

\* build: siftDown bottom-up from the last parent
RECURSIVE BuildLoop(_, _, _, _, _)
BuildLoop(asc, p, heap, size, keys) ==
    IF p < 1 THEN heap
    ELSE BuildLoop(asc, p - 1, Heapify(asc, p, heap, size, keys), size, keys)

\* (slip: the bottom-up pass stops before the root)
Heap_build_Short(asc, heap, size, keys) ==
    IF size \div 2 < 2 THEN heap
    ELSE BuildLoop(asc, size \div 2 - 1,
                   Heapify(asc, size \div 2, heap, size, keys), size, keys)

Heap_build(asc, heap, size, keys) ==
    BuildLoop(asc, size \div 2, heap, size, keys)

\* (slip: the last live element moves to the root and is left there)
Heap_delete_NoSift(asc, heap, size, keys) ==
    IF size <= 1
    THEN [heap |-> heap, size |-> size - 1]
    ELSE [heap |-> [heap EXCEPT ![1] = heap[size]], size |-> size - 1]

\* deleteTop: the last live element moves to the root and sinks; size-1
Heap_delete(asc, heap, size, keys) ==
    IF size <= 1
    THEN [heap |-> heap, size |-> size - 1]
    ELSE [heap |-> Heapify(asc, 1, [heap EXCEPT ![1] = heap[size]],
                           size - 1, keys),
          size |-> size - 1]

\* insert: the new leaf rises while it must sit above its parent
RECURSIVE AddLoop(_, _, _, _, _)
AddLoop(asc, lold, leaf, heap, keys) ==
    IF lold <= 1 THEN heap
    ELSE LET lnew == lold \div 2
             l == heap[lnew]
         IN  IF Above(asc, keys[leaf], keys[l])
             THEN AddLoop(asc, lnew, leaf,
                          [heap EXCEPT ![lnew] = leaf, ![lold] = l], keys)
             ELSE heap

Heap_add(asc, leaf, heap, keys, size) ==
    [heap |-> AddLoop(asc, size + 1, leaf,
                      [heap EXCEPT ![size + 1] = leaf], keys),
     size |-> size + 1]

\* the instances the sources name
QPMinHeap_build(heap, size, keys) == Heap_build(TRUE, heap, size, keys)
QPMinHeap_delete(heap, size, keys) == Heap_delete(TRUE, heap, size, keys)
QPMinHeap_add(leaf, heap, keys, size) == Heap_add(TRUE, leaf, heap, keys, size)
QPmaxheap_build(heap, size, keys) == Heap_build(FALSE, heap, size, keys)
QPmaxheap_delete(heap, size, keys) == Heap_delete(FALSE, heap, size, keys)
QPmaxheap_add(leaf, heap, keys, size) == Heap_add(FALSE, leaf, heap, keys, size)

(***************************************************************************)
(* QPnapdown: inputs.                                                      *)
(***************************************************************************)
\* keys y_i, in tenths
XVals == {R(-5, 10), R(2, 10), R(5, 10), R(9, 10), R(10, 10), R(15, 10)}
\* weights a_i > 0
AVals == {One, R(2, 1)}
\* targets b
BVals == {Zero, One, R(3, 2), R(3, 1), R(7, 1)}
\* initial guesses for the shift
LVals == {Zero, R(1, 2)}

Idx(m) == 0 .. (m - 1)
\* a heap buffer or breakpts before the call: contents irrelevant
NoIdx == -1
Unset == <<0, 0>>

\* the weight the code uses for coordinate j
Wt(j) == IF aNull THEN One ELSE a[j]

NoOp == [op |-> "none", top |-> NoIdx, before |-> {}, size |-> 0, ret |-> 0,
         prev |-> "none", psize |-> 0]

InitHeapIdle ==
    /\ hp = <<>> /\ hsz = 0 /\ hkeys = <<>> /\ hasc = FALSE /\ hret = NoOp

InitQP ==
    /\ pc = "partition"
    /\ n \in 0 .. MaxN
    /\ x \in [Idx(n) -> XVals]
    /\ aNull \in BOOLEAN
    /\ a \in IF aNull THEN {<<>>} ELSE [Idx(n) -> AVals]
    /\ b \in BVals
    /\ lambda \in LVals
    /\ lambda0 = lambda /\ x_in = x /\ a_in = a
    /\ breakpts = [j \in Idx(n) |-> Unset]
    /\ bound_heap = [p \in 1 .. n |-> NoIdx]
    /\ free_heap = [p \in 1 .. n |-> NoIdx]
    /\ i = 0 /\ k = 0 /\ maxsteps = 0
    \* lines 39-49
    /\ maxbound = NegInf /\ maxfree = NegInf
    /\ n_bound = 0 /\ n_free = 0
    /\ asum = Zero /\ a2sum = Zero
    /\ asum_part = Zero

InitLogIdle == ops = <<>> /\ phase = 0 /\ trace = <<>> /\ ref = <<>>

Init == InitQP /\ InitHeapIdle /\ InitLogIdle

\* what a call has computed so far: everything but the weights it was given
Snap ==
    [pc |-> pc, lambda |-> lambda, breakpts |-> breakpts,
     bound_heap |-> bound_heap, free_heap |-> free_heap, i |-> i, k |-> k,
     maxsteps |-> maxsteps, n_bound |-> n_bound, n_free |-> n_free,
     asum |-> asum, a2sum |-> a2sum, maxbound |-> maxbound,
     maxfree |-> maxfree]

\* under SpecTwin every step of a call adds the state it reaches to trace
Log ==
    /\ trace' = IF phase = 0 THEN trace ELSE Append(trace, Snap')
    /\ UNCHANGED <<phase, ref>>

\* a call of a heap routine: which, on which size, in which round, and the
\* coordinate it takes out or puts in (NoIdx for a build)
Call(op, size, e) == [op |-> op, size |-> size, k |-> k, e |-> e]

(***************************************************************************)
(* QPnapdown: the partition pass (lines 50-104).                           *)
(***************************************************************************)
\* xi = x[i] - lambda (line 54), x[i] - ai * lambda (line 82)
Xi(j, lam) ==
    IF aNull THEN RSub(x[j], lam) ELSE RSub(x[j], RMul(a[j], lam))

\* breakpoint of a coordinate bound at 0 (lines 59, 87)
BoundBreak(j) == IF aNull THEN x[j] ELSE RDiv(x[j], a[j])

\* (slip: the weighted branch forgets the division by ai)
FreeBreak_NoDiv(j) == RSub(x[j], One)

\* breakpoint of a free coordinate (lines 67, 95, 174, 189)
FreeBreak(j) ==
    IF aNull THEN RSub(x[j], One) ELSE RDiv(RSub(x[j], One), a[j])

\* (slip: the weighted branch forgets the factor ai)
AsumFree_NoWeight(s, j) == RAdd(s, x[j])

\* asum += x[i] (68), x[i] * ai (96); asum + x[e] (173), ai * x[e] (188)
AsumFree(s, j) ==
    IF aNull THEN RAdd(s, x[j]) ELSE RAdd(s, RMul(x[j], a[j]))

\* (slip: the weighted branch doubles the weight instead of squaring it)
A2sumFree_Double(s, j) ==
    IF aNull THEN RAdd(s, One) ELSE RAdd(s, RAdd(a[j], a[j]))

\* a2sum++ (69, 172), a2sum += ai * ai (97, 187)
A2sumFree(s, j) ==
    IF aNull THEN RAdd(s, One) ELSE RAdd(s, RMul(a[j], a[j]))

\* asum++ (74), asum += ai (102)
AsumHigh(s, j) == IF aNull THEN RAdd(s, One) ELSE RAdd(s, a[j])

\* (slip: the shifted value is stored back into x)
PartitionStep_WritesX ==
    /\ pc = "partition"
    /\ i < n
    /\ x' = [x EXCEPT ![i] = Xi(i, lambda)]
    /\ i' = i + 1
    /\ UNCHANGED <<pc, n, a, aNull, b, lambda, breakpts, bound_heap,
                   free_heap, k, maxsteps, n_bound, n_free, asum, a2sum,
                   maxbound, maxfree, lambda0, x_in, a_in, asum_part, hvars,
                   gvars>>

PartitionStep ==
    /\ pc = "partition"
    /\ i < n
    /\ LET xi == Xi(i, lambda)
       IN  IF RLt(xi, Zero)
           THEN /\ n_bound' = n_bound + 1
                /\ bound_heap' = [bound_heap EXCEPT ![n_bound + 1] = i]
                /\ maxbound' = MAX2(maxbound, BoundBreak(i))
                /\ breakpts' = [breakpts EXCEPT ![i] = BoundBreak(i)]
                /\ UNCHANGED <<n_free, free_heap, asum, a2sum, maxfree>>
           ELSE IF RLt(xi, One)
           THEN /\ n_free' = n_free + 1
                /\ free_heap' = [free_heap EXCEPT ![n_free + 1] = i]
                /\ asum' = AsumFree(asum, i)
                /\ a2sum' = A2sumFree(a2sum, i)
                /\ maxfree' = MAX2(maxfree, FreeBreak(i))
                /\ breakpts' = [breakpts EXCEPT ![i] = FreeBreak(i)]
                /\ UNCHANGED <<n_bound, bound_heap, maxbound>>
           ELSE /\ asum' = AsumHigh(asum, i)
                /\ UNCHANGED <<n_bound, bound_heap, maxbound, n_free,
                               free_heap, a2sum, maxfree, breakpts>>
    /\ i' = i + 1
    /\ UNCHANGED <<pc, n, x, a, aNull, b, lambda, k, maxsteps,
                   lambda0, x_in, a_in, asum_part, hvars, ops>>
    /\ Log

\* (slip: one round per coordinate)
MaxStepsOf_Short(m) == m + 1

\* maxsteps = 2 * n + 1 (line 111)
MaxStepsOf(m) == 2 * m + 1

\* the for loop ends; maxsteps is set and k = 1 (lines 111-112)
PartitionDone ==
    /\ pc = "partition"
    /\ i >= n
    /\ maxsteps' = MaxStepsOf(n)
    /\ k' = 1
    /\ asum_part' = asum
    /\ pc' = "check"
    /\ UNCHANGED <<n, x, a, aNull, b, lambda, breakpts, bound_heap, free_heap,
                   i, n_bound, n_free, asum, a2sum, maxbound, maxfree,
                   lambda0, x_in, a_in, hvars, ops>>
    /\ Log

(***************************************************************************)
(* QPnapdown: the head of a sweep round (lines 112-127).                   *)
(***************************************************************************)
\* (slip: the smaller of the two tops is taken)
NewBreak_Min == IF RLt(maxfree, maxbound) THEN maxfree ELSE maxbound

\* new_break = MONGOOSE_MAX2(maxfree, maxbound) (line 114)
NewBreak == MAX2(maxfree, maxbound)

\* s = asum - new_break * a2sum (line 115)
Slope(nb) == RSub(asum, RMul(nb, a2sum))

\* (s >= b) || (new_break == -INFINITY) (line 116); with new_break
\* = -INFINITY the test holds whatever s is
IsDone(nb) == nb = NegInf \/ RGe(Slope(nb), b)

\* (slip: the degenerate case hands back the caller's guess)
ClosedForm_Guess ==
    IF a2sum # Zero THEN RDiv(RSub(asum, b), a2sum) ELSE lambda0

\* (slip: the numerator is taken the other way round)
ClosedForm_Swap ==
    IF a2sum # Zero THEN RDiv(RSub(b, asum), a2sum) ELSE lambda

\* if (a2sum != 0.) lambda = (asum - b) / a2sum; return lambda (118-119)
ClosedForm ==
    IF a2sum # Zero THEN RDiv(RSub(asum, b), a2sum) ELSE lambda

\* (slip: the heaps are rebuilt in every round)
BuildsIn_Every(kk) == kk >= 1

\* if (k == 1) (line 123)
BuildsIn(kk) == kk = 1

RoundHead ==
    /\ pc = "check"
    /\ IF k > maxsteps
       THEN \* lines 206-209
            /\ lambda' = Zero
            /\ pc' = "exhausted"
            /\ UNCHANGED <<free_heap, bound_heap, ops>>
       ELSE IF IsDone(NewBreak)
       THEN /\ lambda' = ClosedForm
            /\ pc' = "done"
            /\ UNCHANGED <<free_heap, bound_heap, ops>>
       ELSE /\ lambda' = NewBreak
            /\ IF BuildsIn(k)
               THEN /\ free_heap' = QPmaxheap_build(free_heap, n_free, breakpts)
                    /\ bound_heap' =
                           QPmaxheap_build(bound_heap, n_bound, breakpts)
                    /\ ops' = ops \o <<Call("build_free", n_free, NoIdx),
                                       Call("build_bound", n_bound, NoIdx)>>
               ELSE UNCHANGED <<free_heap, bound_heap, ops>>
            /\ pc' = "free_if"
    /\ UNCHANGED <<n, x, a, aNull, b, breakpts, i, k, maxsteps, n_bound,
                   n_free, asum, a2sum, maxbound, maxfree,
                   lambda0, x_in, a_in, asum_part, hvars>>
    /\ Log

(***************************************************************************)
(* QPnapdown: the free heap's pops (lines 133-163).                        *)
(***************************************************************************)
\* (slip: the loop is entered whatever n_free is)
FreeIf_NoGuard ==
    /\ pc = "free_if"
    /\ pc' = "free_while"
    /\ UNCHANGED <<qpvars, hvars, ops>>
    /\ Log

FreeIf ==
    /\ pc = "free_if"
    /\ pc' = IF n_free > 0 THEN "free_while" ELSE "bound_if"
    /\ UNCHANGED <<qpvars, hvars, ops>>
    /\ Log

\* (slip: a2sum keeps the square of a weight that has left the free set)
A2sumLeave_Keep(s, j) == s

\* a2sum-- (139), a2sum -= ai * ai (152)
A2sumLeave(s, j) ==
    IF aNull THEN RSub(s, One) ELSE RSub(s, RMul(a[j], a[j]))

\* (slip: the coordinate's free contribution is not taken out)
AsumLeave_Keep(s, j) == IF aNull THEN RAdd(s, One) ELSE RAdd(s, a[j])

\* asum + (1. - x[e]) (140), asum + ai * (1. - x[e]) (153)
AsumLeave(s, j) ==
    IF aNull THEN RAdd(s, RSub(One, x[j]))
    ELSE RAdd(s, RMul(a[j], RSub(One, x[j])))

FreeWhile ==
    /\ pc = "free_while"
    /\ LET e == free_heap[1]
       IN  IF RGe(breakpts[e], lambda)
           THEN LET d == QPmaxheap_delete(free_heap, n_free, breakpts)
                IN  /\ asum' = AsumLeave(asum, e)
                    /\ ops' = Append(ops, Call("delete_free", n_free, e))
                    /\ free_heap' = d.heap
                    /\ n_free' = d.size
                    /\ IF d.size = 0
                       THEN /\ a2sum' = IF aNull THEN A2sumLeave(a2sum, e)
                                        ELSE Zero
                            /\ pc' = "bound_if"
                       ELSE /\ a2sum' = A2sumLeave(a2sum, e)
                            /\ pc' = "free_while"
           ELSE /\ pc' = "bound_if"
                /\ UNCHANGED <<asum, a2sum, free_heap, n_free, ops>>
    /\ UNCHANGED <<n, x, a, aNull, b, lambda, breakpts, bound_heap, i, k,
                   maxsteps, n_bound, maxbound, maxfree,
                   lambda0, x_in, a_in, asum_part, hvars>>
    /\ Log

(***************************************************************************)
(* QPnapdown: the bound heap's pops (lines 165-196).                       *)
(***************************************************************************)
BoundIf ==
    /\ pc = "bound_if"
    /\ pc' = IF n_bound > 0 THEN "bound_while" ELSE "getmax"
    /\ UNCHANGED <<qpvars, hvars, ops>>
    /\ Log

\* (slip: the size is decremented, the top is not taken out)
BoundPop_Last == [heap |-> bound_heap, size |-> n_bound - 1]

\* (slip: the size the delete returns is dropped)
BoundPop_SizeKept ==
    [heap |-> QPmaxheap_delete(bound_heap, n_bound, breakpts).heap,
     size |-> n_bound]

\* n_bound = QPmaxheap_delete(bound_heap, n_bound, breakpts) (171, 185)
BoundPop == QPmaxheap_delete(bound_heap, n_bound, breakpts)

BoundWhile ==
    /\ pc = "bound_while"
    /\ LET e == bound_heap[1]
       IN  IF RGe(breakpts[e], lambda)
           THEN LET d == BoundPop
                    bp == [breakpts EXCEPT ![e] = FreeBreak(e)]
                    f == QPmaxheap_add(e, free_heap, bp, n_free)
                IN  /\ bound_heap' = d.heap
                    /\ n_bound' = d.size
                    /\ ops' = ops \o <<Call("delete_bound", n_bound, e),
                                       Call("add_free", n_free, e)>>
                    /\ a2sum' = A2sumFree(a2sum, e)
                    /\ asum' = AsumFree(asum, e)
                    /\ breakpts' = bp
                    /\ free_heap' = f.heap
                    /\ n_free' = f.size
                    /\ pc' = IF d.size = 0 THEN "getmax" ELSE "bound_while"
           ELSE /\ pc' = "getmax"
                /\ UNCHANGED <<asum, a2sum, free_heap, n_free, bound_heap,
                               n_bound, breakpts, ops>>
    /\ UNCHANGED <<n, x, a, aNull, b, lambda, i, k, maxsteps,
                   maxbound, maxfree, lambda0, x_in, a_in, asum_part, hvars>>
    /\ Log

\* the biggest entry in each heap (lines 202-203), then k++
GetMax ==
    /\ pc = "getmax"
    /\ maxfree' = IF n_free > 0 THEN breakpts[free_heap[1]] ELSE NegInf
    /\ maxbound' = IF n_bound > 0 THEN breakpts[bound_heap[1]] ELSE NegInf
    /\ k' = k + 1
    /\ pc' = "check"
    /\ UNCHANGED <<n, x, a, aNull, b, lambda, breakpts, bound_heap, free_heap,
                   i, maxsteps, n_bound, n_free, asum, a2sum,
                   lambda0, x_in, a_in, asum_part, hvars, ops>>
    /\ Log

Next ==
    \/ PartitionStep
    \/ PartitionDone
    \/ RoundHead
    \/ FreeIf
    \/ FreeWhile
    \/ BoundIf
    \/ BoundWhile
    \/ GetMax

Spec == Init /\ [][Next]_vars

(***************************************************************************)
(* What the claims speak of.                                               *)
(***************************************************************************)
RECURSIVE RSumTo(_, _)
RSumTo(f, m) == IF m = 0 THEN Zero ELSE RAdd(RSumTo(f, m - 1), f[m - 1])

Clamp(v) == IF RLt(v, Zero) THEN Zero ELSE IF RGt(v, One) THEN One ELSE v

\* sum_i a_i * clamp(x_i - a_i * lam, 0, 1), a_i = 1 when a is absent
SlopeAt(lam) ==
    RSumTo([j \in Idx(n) |->
               RMul(Wt(j), Clamp(RSub(x[j], RMul(Wt(j), lam))))], n)

SumA == RSumTo([j \in Idx(n) |-> Wt(j)], n)

\* 0 <= b <= sum(a)
PreB == RLe(Zero, b) /\ RLe(b, SumA)
\* lambda0 is not below the true multiplier: the slope there is at most b
PreLambda == RLe(SlopeAt(lambda0), b)

Live(heap, size) == {heap[p] : p \in 1 .. size}
FreeSet == Live(free_heap, n_free)
BoundSet == Live(bound_heap, n_bound)
HighSet == Idx(n) \ (FreeSet \cup BoundSet)

\* C1: under the preconditions (0 <= b <= sum(a), lambda0 not below the
\* true multiplier) the returned lambda satisfies
\* sum_i a_i * clamp(x_i - a_i * lambda, 0, 1) = b exactly.
C1_Feasible ==
    (pc = "done" /\ PreB /\ PreLambda) => SlopeAt(lambda) = b

C1_Witness ==
    /\ pc = "done" /\ PreB /\ PreLambda
    /\ k >= 3 /\ lambda # lambda0 /\ ~aNull /\ a2sum # Zero
    /\ SlopeAt(lambda) = b

\* C2: the sweep returns from inside the loop within 2n+1 rounds; the state
\* after the loop (ASSERT(false), lambda = 0) is never reached.
C2_ReturnsInLoop == pc # "exhausted" /\ k <= 2 * n + 1

C2_Witness == pc = "done" /\ n >= 2 /\ k = 2 * n + 1

\* C3 as stated: whenever the closed-form step is reached with a2sum = 0,
\* in any round, the value returned is the caller's guess lambda0.
C3_ReturnsGuess == (pc = "done" /\ a2sum = Zero) => lambda = lambda0

\* C3, amended: the closed-form step reached with a2sum = 0 returns lambda
\* as it stands, without a division: lambda0 in round 1, and in a later
\* round the breakpoint the previous round assigned to lambda.
C3_ReturnsCurrent ==
    [][(pc = "check" /\ pc' = "done" /\ a2sum = Zero)
          => (lambda' = lambda /\ (k = 1 => lambda' = lambda0))]_vars

C3_Witness ==
    pc = "done" /\ a2sum = Zero /\ k > 1 /\ lambda # lambda0

\* C4: at the start of every round and at return the live parts of the two
\* heaps hold each index at most once, share no index and hold only indices
\* of [0, n); the coordinates in neither heap are the bound-high ones.
C4_Partition ==
    pc \in {"check", "done"} =>
        /\ Cardinality(FreeSet) = n_free
        /\ Cardinality(BoundSet) = n_bound
        /\ FreeSet \cap BoundSet = {}
        /\ (FreeSet \cup BoundSet) \subseteq Idx(n)

C4_Witness ==
    /\ pc = "check" /\ k >= 2
    /\ n_free >= 1 /\ n_bound >= 1 /\ HighSet # {}

\* C5: at the start of every round asum is the sum of a_i * x_i over the
\* free coordinates plus the sum of a_i over the bound-high ones, and a2sum
\* is the sum of a_i^2 over the free coordinates.
C5_Aggregates ==
    pc = "check" =>
        /\ asum = RSumTo([j \in Idx(n) |->
                            IF j \in FreeSet THEN RMul(Wt(j), x[j])
                            ELSE IF j \in HighSet THEN Wt(j) ELSE Zero], n)
        /\ a2sum = RSumTo([j \in Idx(n) |->
                            IF j \in FreeSet THEN RMul(Wt(j), Wt(j))
                            ELSE Zero], n)

C5_Witness ==
    /\ pc = "check" /\ k >= 3 /\ ~aNull
    /\ FreeSet # {} /\ HighSet # {} /\ asum # asum_part

\* C6: x and a hold at every point of the call, and so at return, the
\* values they held at the call.
C6_InputsKept == x = x_in /\ a = a_in

C6_Witness ==
    /\ pc = "done" /\ k >= 2 /\ n >= 2 /\ ~aNull
    /\ x = x_in /\ a = a_in
    /\ \E j \in Idx(n) : breakpts[j] # Unset

\* every x_i in [0, 1] and sum_i a_i * x_i = b
AlreadyFeasible ==
    /\ \A j \in Idx(n) : RLe(Zero, x[j]) /\ RLe(x[j], One)
    /\ RSumTo([j \in Idx(n) |-> RMul(Wt(j), x[j])], n) = b

\* C9 as stated: on an already feasible input the call returns lambda0,
\* for every lambda0 that is not below the true multiplier, and asum is at
\* return what it was after the partition pass.
C9_ReturnsAnyGuess ==
    (pc = "done" /\ AlreadyFeasible /\ PreLambda) =>
        (lambda = lambda0 /\ asum = asum_part)

\* C9, amended: on an already feasible input called with lambda0 = 0 the
\* call returns lambda0, and asum is at return what it was after the
\* partition pass.
C9_ReturnsZeroGuess ==
    (pc = "done" /\ AlreadyFeasible /\ lambda0 = Zero) =>
        (lambda = lambda0 /\ asum = asum_part)

C9_Witness ==
    /\ pc = "done" /\ AlreadyFeasible /\ lambda0 = Zero
    /\ n >= 2 /\ ~aNull /\ a2sum # Zero /\ HighSet # {}
    /\ lambda = lambda0

\* n = 3, x = [0.2, 0.9, 0.5], a absent, b = 1, lambda0 = 0
Scenario ==
    /\ n = 3 /\ aNull /\ b = One /\ lambda0 = Zero
    /\ x = [j \in Idx(3) |->
               IF j = 0 THEN R(2, 10) ELSE IF j = 1 THEN R(9, 10)
               ELSE R(5, 10)]

\* C10: in the scenario the call returns lambda = 0.2 = 1/5, and
\* clamp(0.2 - lambda) + clamp(0.9 - lambda) + clamp(0.5 - lambda) = 1.
C10_Scenario ==
    (pc = "done" /\ Scenario) =>
        (lambda = R(2, 10) /\ SlopeAt(lambda) = One)

C10_Witness == pc = "done" /\ Scenario /\ lambda = <<1, 5>>

(***************************************************************************)
(* A heap on its own: build once over an arbitrary arrangement of distinct *)
(* indices, then any sequence of insert and deleteTop.                     *)
(***************************************************************************)
KeyVals == {Zero, One, R(2, 1)}

InitQPIdle ==
    /\ n = 0 /\ x = <<>> /\ a = <<>> /\ aNull = TRUE /\ b = Zero
    /\ lambda = Zero /\ lambda0 = Zero /\ x_in = <<>> /\ a_in = <<>>
    /\ breakpts = <<>> /\ bound_heap = <<>> /\ free_heap = <<>>
    /\ i = 0 /\ k = 0 /\ maxsteps = 0 /\ n_bound = 0 /\ n_free = 0
    /\ asum = Zero /\ a2sum = Zero /\ maxbound = NegInf /\ maxfree = NegInf
    /\ asum_part = Zero

InitHeap ==
    /\ InitQPIdle
    /\ pc = "heap_raw"
    /\ hasc \in BOOLEAN
    \* the indices are named in key order (any key array is one of these
    \* up to a renaming of the indices); their arrangement in the buffer
    \* is arbitrary
    /\ hkeys \in [Idx(MaxHeap) -> KeyVals]
    /\ \A j \in Idx(MaxHeap - 1) : RLe(hkeys[j], hkeys[j + 1])
    /\ hsz \in 0 .. MaxHeap
    /\ hp \in [1 .. MaxHeap -> Idx(MaxHeap) \cup {NoIdx}]
    /\ \A p \in 1 .. MaxHeap : (hp[p] = NoIdx) <=> (p > hsz)
    /\ \A p, q \in 1 .. hsz : hp[p] = hp[q] => p = q
    /\ hret = NoOp
    /\ InitLogIdle

HBuild ==
    /\ pc = "heap_raw"
    /\ hp' = IF hasc THEN QPMinHeap_build(hp, hsz, hkeys)
             ELSE QPmaxheap_build(hp, hsz, hkeys)
    /\ hret' = [NoOp EXCEPT !.op = "build", !.size = hsz, !.ret = hsz]
    /\ pc' = "heap"
    /\ UNCHANGED <<qpvars, hsz, hkeys, hasc, gvars>>

HAdd ==
    /\ pc = "heap"
    /\ hsz < MaxHeap
    /\ \E leaf \in Idx(MaxHeap) \ Live(hp, hsz) :
          LET r == IF hasc THEN QPMinHeap_add(leaf, hp, hkeys, hsz)
                   ELSE QPmaxheap_add(leaf, hp, hkeys, hsz)
          IN  /\ hp' = r.heap
              /\ hsz' = r.size
              /\ hret' = [op |-> "add", top |-> leaf,
                          before |-> Live(hp, hsz), size |-> hsz,
                          ret |-> r.size, prev |-> hret.op,
                          psize |-> hret.size]
    /\ UNCHANGED <<pc, qpvars, hkeys, hasc, gvars>>

HDelete ==
    /\ pc = "heap"
    /\ hsz >= 1
    /\ LET r == IF hasc THEN QPMinHeap_delete(hp, hsz, hkeys)
                ELSE QPmaxheap_delete(hp, hsz, hkeys)
       IN  /\ hp' = r.heap
           /\ hsz' = r.size
           /\ hret' = [op |-> "delete", top |-> hp[1],
                       before |-> Live(hp, hsz), size |-> hsz,
                       ret |-> r.size, prev |-> hret.op,
                       psize |-> hret.size]
    /\ UNCHANGED <<pc, qpvars, hkeys, hasc, gvars>>

NextHeap == HBuild \/ HAdd \/ HDelete

SpecHeap == InitHeap /\ [][NextHeap]_vars

\* keys u, v in heap order: u <= v ascending, u >= v descending
InOrder(u, v) == IF hasc THEN RLe(u, v) ELSE RGe(u, v)

\* C7: after build, and after any further inserts and deleteTops, every
\* live position p has its key in order (<= ascending, >= descending) with
\* the keys at 2p and 2p+1 whenever those positions are live.
C7_HeapOrder ==
    pc = "heap" =>
        \A p \in 1 .. hsz : \A c \in {2 * p, 2 * p + 1} :
            c <= hsz => InOrder(hkeys[hp[p]], hkeys[hp[c]])

C7_Witness ==
    /\ pc = "heap" /\ hret.op = "add" /\ hret.prev = "delete" /\ hsz = MaxHeap
    /\ \E p, q \in 1 .. hsz : p # q /\ hkeys[hp[p]] = hkeys[hp[q]]
    /\ \E p, q \in 1 .. hsz : hkeys[hp[p]] # hkeys[hp[q]]

\* C8: deleteTop on a heap of size >= 1 returns size-1 and removes exactly
\* the index that was at heap[1], whose key is the least (ascending) or the
\* greatest (descending) of the live keys; the other live indices stay, each
\* once.  An insert into the empty heap followed by deleteTop leaves size 0.
C8_DeleteTop ==
    (pc = "heap" /\ hret.op = "delete") =>
        /\ hret.ret = hret.size - 1
        /\ hsz = hret.ret
        /\ Live(hp, hsz) = hret.before \ {hret.top}
        /\ Cardinality(Live(hp, hsz)) = hsz
        /\ \A j \in hret.before : InOrder(hkeys[hret.top], hkeys[j])
        /\ (hret.prev = "add" /\ hret.psize = 0) => hsz = 0

C8_Witness ==
    /\ pc = "heap" /\ hret.op = "delete" /\ hret.size >= 3
    /\ hret.prev = "delete"
    /\ \E j \in hret.before : hkeys[j] # hkeys[hret.top]
    /\ hsz = hret.size - 1

(***************************************************************************)
(* Two calls on the same x, b and guess: first with a == NULL, then with   *)
(* a vector of ones.                                                       *)
(***************************************************************************)
Ones == [j \in Idx(n) |-> One]

InitTwin ==
    /\ InitQP
    /\ aNull
    /\ InitHeapIdle
    /\ ops = <<>>
    /\ phase = 1
    /\ trace = <<Snap>>
    /\ ref = <<>>

\* the first call has returned; the second starts from the same arguments
Restart ==
    /\ phase = 1
    /\ pc \in {"done", "exhausted"}
    /\ phase' = 2
    /\ ref' = trace
    /\ aNull' = FALSE
    /\ a' = Ones
    /\ a_in' = Ones
    /\ pc' = "partition"
    /\ lambda' = lambda0
    /\ breakpts' = [j \in Idx(n) |-> Unset]
    /\ bound_heap' = [p \in 1 .. n |-> NoIdx]
    /\ free_heap' = [p \in 1 .. n |-> NoIdx]
    /\ i' = 0 /\ k' = 0 /\ maxsteps' = 0
    /\ maxbound' = NegInf /\ maxfree' = NegInf
    /\ n_bound' = 0 /\ n_free' = 0
    /\ asum' = Zero /\ a2sum' = Zero
    /\ asum_part' = Zero
    /\ ops' = <<>>
    /\ trace' = <<Snap'>>
    /\ UNCHANGED <<n, x, b, lambda0, x_in, hvars>>

NextTwin ==
    \/ PartitionStep
    \/ PartitionDone
    \/ RoundHead
    \/ FreeIf
    \/ FreeWhile
    \/ BoundIf
    \/ BoundWhile
    \/ GetMax
    \/ Restart

SpecTwin == InitTwin /\ [][NextTwin]_vars

\* C11: a call with a vector of ones goes through the same states, one
\* after the other, as the call with a == NULL on the same x, b and guess
\* went through, and when it returns it has gone through all of them, so
\* it returns the same multiplier.
C11_SameAsNull ==
    phase = 2 =>
        /\ Len(trace) <= Len(ref)
        /\ trace = SubSeq(ref, 1, Len(trace))
        /\ pc \in {"done", "exhausted"} => trace = ref

C11_Witness ==
    /\ phase = 2
    /\ pc = "done"
    /\ n >= 2
    /\ k >= 3
    /\ a = Ones
    /\ trace = ref
    /\ \E j \in 1 .. Len(ops) : ops[j].op = "delete_free"
    /\ \E j \in 1 .. Len(ops) : ops[j].op = "add_free"

(***************************************************************************)
(* The sweep's pops.                                                       *)
(***************************************************************************)
\* a step that pops the top of free_heap, of bound_heap
FreePops == pc = "free_while" /\ n_free' = n_free - 1
BoundPops == pc = "bound_while" /\ n_bound' = n_bound - 1

\* C12 as stated: a coordinate popped from one heap is inserted into the
\* other one, whichever heap it was popped from (here for the calls that
\* keep the preconditions 0 <= b <= sum(a) and slope(lambda0) <= b).
C12_RehomedBothWays ==
    [][(PreB /\ PreLambda) =>
          /\ FreePops => free_heap[1] \in BoundSet'
          /\ BoundPops => bound_heap[1] \in FreeSet']_vars

\* C12, amended: a coordinate popped from bound_heap is inserted into
\* free_heap with its breakpoint recomputed as (x - 1) / a, asum grown by
\* a * x and a2sum by a * a; a coordinate popped from free_heap is in
\* neither heap afterwards (it is bound at 1), its breakpoint is left as it
\* was, asum grows by a * (1 - x) and a2sum shrinks by a * a.
C12_Rehomed ==
    [][/\ FreePops =>
            LET e == free_heap[1]
            IN  /\ e \notin FreeSet' /\ e \notin BoundSet'
                /\ BoundSet' = BoundSet
                /\ FreeSet' = FreeSet \ {e}
                /\ breakpts' = breakpts
                /\ asum' = RAdd(asum, RMul(Wt(e), RSub(One, x[e])))
                /\ a2sum' = RSub(a2sum, RMul(Wt(e), Wt(e)))
       /\ BoundPops =>
            LET e == bound_heap[1]
            IN  /\ e \in FreeSet' /\ e \notin BoundSet'
                /\ FreeSet' = FreeSet \cup {e}
                /\ BoundSet' = BoundSet \ {e}
                /\ breakpts' = [breakpts EXCEPT
                                   ![e] = RDiv(RSub(x[e], One), Wt(e))]
                /\ asum' = RAdd(asum, RMul(Wt(e), x[e]))
                /\ a2sum' = RAdd(a2sum, RMul(Wt(e), Wt(e)))]_vars

C12_Witness ==
    /\ pc = "getmax"
    /\ ~aNull
    /\ \E p, q \in 1 .. Len(ops) :
          /\ ops[p].op = "delete_free" /\ ops[p].k = k
          /\ ops[q].op = "add_free" /\ ops[q].k = k
    /\ HighSet # {}
    /\ FreeSet # {}

(***************************************************************************)
(* The heap calls of one call of QPnapdown.                                *)
(***************************************************************************)
Calls(op) == {p \in 1 .. Len(ops) : ops[p].op = op}
Builds == Calls("build_free") \cup Calls("build_bound")
Sweeping == pc \in {"free_if", "free_while", "bound_if", "bound_while",
                    "getmax"}

\* every live position's key is at most its parent's
MaxHeapOrdered(heap, size) ==
    \A p \in 2 .. size : RLe(breakpts[heap[p]], breakpts[heap[p \div 2]])

\* C13: each heap is built at most once, in round 1 only, and not at all
\* when round 1 takes the early exit; every deleteTop and insert comes
\* after both builds, and a round that goes on to the pops has built both,
\* so the pops and inserts work on arrays that are in heap order.
C13_BuildOnce ==
    /\ Cardinality(Calls("build_free")) <= 1
    /\ Cardinality(Calls("build_bound")) <= 1
    /\ \A p \in Builds : ops[p].k = 1
    /\ (pc = "done" /\ k = 1) => ops = <<>>
    /\ \A p \in (1 .. Len(ops)) \ Builds :
          /\ \E q \in Calls("build_free") : q < p
          /\ \E q \in Calls("build_bound") : q < p
    /\ Sweeping =>
          /\ Calls("build_free") # {} /\ Calls("build_bound") # {}
          /\ MaxHeapOrdered(free_heap, n_free)
          /\ MaxHeapOrdered(bound_heap, n_bound)

C13_Witness ==
    /\ pc = "done"
    /\ k >= 3
    /\ Cardinality(Builds) = 2
    /\ \E p \in Calls("delete_free") : ops[p].k >= 2
    /\ \E p \in Calls("delete_bound") : ops[p].k >= 2
    /\ \E p \in Calls("add_free") : ops[p].k >= 2

\* the states in which the next step reads free_heap[1], bound_heap[1] as
\* the heap's top: the loop tests (137, 149, 169, 183) and lines 202-203
ReadsFreeTop == pc = "free_while" \/ (pc = "getmax" /\ n_free > 0)
ReadsBoundTop == pc = "bound_while" \/ (pc = "getmax" /\ n_bound > 0)

\* C14: no deleteTop is called on a heap of size 0, and whenever
\* free_heap[1] or bound_heap[1] is read as a top the heap is not empty and
\* the slot holds a coordinate of [0, n), for every input, n = 0 included.
C14_NoEmptyTop ==
    /\ \A p \in Calls("delete_free") \cup Calls("delete_bound") :
          ops[p].size >= 1 /\ ops[p].e \in Idx(n)
    /\ ReadsFreeTop => (n_free >= 1 /\ free_heap[1] \in FreeSet)
    /\ ReadsBoundTop => (n_bound >= 1 /\ bound_heap[1] \in BoundSet)
    /\ (n = 0 /\ pc = "done") => (ops = <<>> /\ k = 1)

\* both heaps have been emptied by a pop, the free one in this round
C14_Witness ==
    /\ pc = "getmax"
    /\ n_free = 0
    /\ n_bound = 0
    /\ \E p \in Calls("delete_free") : ops[p].size = 1 /\ ops[p].k = k
    /\ \E p \in Calls("delete_bound") : ops[p].size = 1

\* C15: the weights being positive, the lambda a round assigns (line 121)
\* is strictly below the lambda before it, hence strictly decreasing from
\* round to round and strictly below lambda0; during a round no live
\* breakpoint of either heap exceeds lambda, so every popped coordinate's
\* breakpoint equals lambda; a coordinate moved from bound_heap to free_heap
\* gets a breakpoint strictly below lambda, and no coordinate is taken out
\* of a heap twice in one round.
C15_Descent ==
    /\ [](Sweeping =>
            /\ RLt(lambda, lambda0)
            /\ \A e \in FreeSet \cup BoundSet : RLe(breakpts[e], lambda))
    /\ [](\A p, q \in Calls("delete_free") \cup Calls("delete_bound") :
            (p # q /\ ops[p].k = ops[q].k) => ops[p].e # ops[q].e)
    /\ [][/\ (pc = "check" /\ pc' = "free_if") => RLt(lambda', lambda)
          /\ FreePops => breakpts[free_heap[1]] = lambda
          /\ BoundPops =>
                /\ breakpts[bound_heap[1]] = lambda
                /\ RLt(breakpts'[bound_heap[1]], lambda)]_vars

C15_Witness ==
    /\ pc = "check"
    /\ k >= 3
    /\ ~aNull /\ \E j \in Idx(n) : a[j] # One
    /\ RLt(lambda, lambda0)
    /\ \E p \in Calls("delete_free"), q \in Calls("add_free") :
          ops[p].k = ops[q].k + 1 /\ ops[p].e = ops[q].e

\* C16: the heap sizes are never negative and together never exceed n;
\* once the partition pass is over their sum never grows; every insert into
\* free_heap is made at a size below n, and the two arrays keep the slots
\* 1 .. n, none beyond n being written.
C16_Sizes ==
    /\ [](/\ n_bound >= 0 /\ n_free >= 0
          /\ n_bound + n_free <= n
          /\ DOMAIN free_heap = 1 .. n
          /\ DOMAIN bound_heap = 1 .. n
          /\ \A p \in Calls("add_free") : ops[p].size < n)
    /\ [][pc # "partition" =>
             n_bound' + n_free' <= n_bound + n_free]_vars

\* an insert has filled free_heap's last slot
C16_Witness ==
    /\ pc = "getmax"
    /\ n >= 2
    /\ n_free = n
    /\ n_bound = 0
    /\ \E p \in Calls("add_free") : ops[p].size = n - 1 /\ ops[p].k = k

====
